---- MODULE Spec2Model ----
\* Model of src/main.py: the two cipher record classes (SubstitutionCipher,
\* ShiftCipher), the CommandProcessor (ADD / REM / PRINT over self.texts) and
\* its file driver process_file.
\*
\* A Python str is modelled as a sequence of one-character strings, so that
\* strip / split / join / the quoted-string regex / int() are computed the way
\* the code computes them.
EXTENDS Integers, Sequences, FiniteSets, TLC

VARIABLES
    pc,        \* position of process_file: "start", "reading", "eof", "aborted", "notfound", "openerror"
    nlines,    \* number of physical lines of the opened file
    lineno,    \* line_num of the last line read (0 before the first)
    line,      \* the last physical line read
    texts,     \* CommandProcessor.texts
    out,       \* the message the last handled line was answered with
    removed,   \* removed_count of the last REM that reported one
    handed,    \* history: line numbers handed to process_command, in order
    skipped,   \* history: line numbers skipped as blank or comment
    added,     \* history: records appended by successful ADDs, in order
    cpc,       \* position of the single-record scenario: "idle", "args", "built", "raised", "shown", "showraised"
    cargs,     \* constructor arguments of the single-record scenario
    cobj,      \* the constructed record of the single-record scenario
    cdec       \* what get_info's decrypt() returned in the single-record scenario

vars == <<pc, nlines, lineno, line, texts, out, removed, handed, skipped, added,
          cpc, cargs, cobj, cdec>>

fileVars == <<pc, nlines, lineno, line, texts, out, removed, handed, skipped, added>>
cipherVars == <<cpc, cargs, cobj, cdec>>

-----------------------------------------------------------------------------
\* Bounds of the model.

MaxLines == 3        \* longest input file, in physical lines
MaxShift == 30       \* shift values range over -MaxShift .. MaxShift
MaxTextLen == 2      \* longest text of the single-record scenario
MaxAlphaLen == 2     \* longest alphabet of the single-record scenario

-----------------------------------------------------------------------------
\* Characters and Python's str methods on them (ASCII).

LowerSeq == <<"a","b","c","d","e","f","g","h","i","j","k","l","m",
              "n","o","p","q","r","s","t","u","v","w","x","y","z">>
UpperSeq == <<"A","B","C","D","E","F","G","H","I","J","K","L","M",
              "N","O","P","Q","R","S","T","U","V","W","X","Y","Z">>

Range(s) == {s[i] : i \in 1..Len(s)}

\* c in s, for a one-character c
In(c, s) == \E i \in 1..Len(s) : s[i] = c

\* s.index(c): the first position of c, 1-based here
Index(c, s) == CHOOSE i \in 1..Len(s) : s[i] = c /\ \A j \in 1..(i-1) : s[j] # c

isupper(c) == In(c, UpperSeq)
islower(c) == In(c, LowerSeq)
isalpha(c) == isupper(c) \/ islower(c)
lower(c) == IF isupper(c) THEN LowerSeq[Index(c, UpperSeq)] ELSE c
upper(c) == IF islower(c) THEN UpperSeq[Index(c, LowerSeq)] ELSE c

\* ord / chr on the letters
OrdA == 65
Orda == 97
ord(c) == IF isupper(c) THEN OrdA - 1 + Index(c, UpperSeq) ELSE Orda - 1 + Index(c, LowerSeq)
chr(n) == IF n < Orda THEN UpperSeq[n - OrdA + 1] ELSE LowerSeq[n - Orda + 1]

\* str.lower() of a whole string
LowerStr(s) == [i \in 1..Len(s) |-> lower(s[i])]

\* the outcome of a call that may raise: a value, or an exception
Ok(v) == [err |-> FALSE, val |-> v]
IndexError == [err |-> TRUE, val |-> <<>>]

-----------------------------------------------------------------------------
\* SubstitutionCipher

RECURSIVE SubstitutionEncrypt(_, _, _)
SubstitutionEncrypt(text, source_alphabet, target_alphabet) ==
    IF text = <<>> THEN Ok(<<>>)
    ELSE LET char == Head(text)
         IN IF In(lower(char), source_alphabet)
            THEN LET pos == Index(lower(char), source_alphabet)
                 IN IF pos > Len(target_alphabet) THEN IndexError
                    ELSE LET e == target_alphabet[pos]
                             encrypted_char == IF isupper(char) THEN upper(e) ELSE e
                             rest == SubstitutionEncrypt(Tail(text), source_alphabet, target_alphabet)
                         IN IF rest.err THEN IndexError
                            ELSE Ok(<<encrypted_char>> \o rest.val)
            ELSE LET rest == SubstitutionEncrypt(Tail(text), source_alphabet, target_alphabet)
                 IN IF rest.err THEN IndexError ELSE Ok(<<char>> \o rest.val)

RECURSIVE SubstitutionDecrypt(_, _, _)
SubstitutionDecrypt(encrypted_text, source_alphabet, target_alphabet) ==
    IF encrypted_text = <<>> THEN Ok(<<>>)
    ELSE LET char == Head(encrypted_text)
         IN IF In(lower(char), target_alphabet)
            THEN LET pos == Index(lower(char), target_alphabet)
                 IN IF pos > Len(source_alphabet) THEN IndexError
                    ELSE LET d == source_alphabet[pos]
                             decrypted_char == IF isupper(char) THEN upper(d) ELSE d
                             rest == SubstitutionDecrypt(Tail(encrypted_text), source_alphabet, target_alphabet)
                         IN IF rest.err THEN IndexError
                            ELSE Ok(<<decrypted_char>> \o rest.val)
            ELSE LET rest == SubstitutionDecrypt(Tail(encrypted_text), source_alphabet, target_alphabet)
                 IN IF rest.err THEN IndexError ELSE Ok(<<char>> \o rest.val)

\* SubstitutionCipher.__init__: the new object, or the IndexError of encrypt()
SubstitutionCipher(text, owner_name, date, source_alphabet, target_alphabet) ==
    LET src == LowerStr(source_alphabet)
        tgt == LowerStr(target_alphabet)
        enc == SubstitutionEncrypt(text, src, tgt)
    IN IF enc.err THEN IndexError
       ELSE Ok([kind |-> "SUBSTITUTION", text |-> text, owner_name |-> owner_name,
                date |-> date, source_alphabet |-> src, target_alphabet |-> tgt,
                shift_value |-> 0, encrypted_text |-> enc.val])

-----------------------------------------------------------------------------
\* ShiftCipher

ShiftEncrypt(text, shift_value) ==
    [i \in 1..Len(text) |->
        LET char == text[i]
        IN IF isalpha(char)
           THEN LET base == IF isupper(char) THEN OrdA ELSE Orda
                IN chr(((ord(char) - base + shift_value) % 26) + base)
           ELSE char]

\* a decrypt whose remainder keeps the sign of its left operand (truncated
\* division), so a negative difference is never brought back into 0..25
ShiftDecryptTruncMutant(encrypted_text, shift_value) ==
    [i \in 1..Len(encrypted_text) |->
        LET char == encrypted_text[i]
        IN IF isalpha(char)
           THEN LET base == IF isupper(char) THEN OrdA ELSE Orda
                    diff == ord(char) - base - shift_value
                    rem == IF diff >= 0 THEN diff % 26 ELSE 0 - ((0 - diff) % 26)
                IN IF rem >= 0 THEN chr(rem + base) ELSE "?"
           ELSE char]

ShiftDecrypt(encrypted_text, shift_value) ==
    [i \in 1..Len(encrypted_text) |->
        LET char == encrypted_text[i]
        IN IF isalpha(char)
           THEN LET base == IF isupper(char) THEN OrdA ELSE Orda
                IN chr(((ord(char) - base - shift_value) % 26) + base)
           ELSE char]

\* ShiftCipher.__init__
ShiftCipher(text, owner_name, date, shift_value) ==
    [kind |-> "SHIFT", text |-> text, owner_name |-> owner_name, date |-> date,
     source_alphabet |-> <<>>, target_alphabet |-> <<>>,
     shift_value |-> shift_value, encrypted_text |-> ShiftEncrypt(text, shift_value)]

-----------------------------------------------------------------------------
\* EncryptedText accessors

get_owner(t) == t.owner_name
get_date(t) == t.date
get_text_length(t) == Len(t.text)

\* self.decrypt(), dispatched on the class of the record
Decrypt(t) ==
    IF t.kind = "SHIFT" THEN Ok(ShiftDecrypt(t.encrypted_text, t.shift_value))
    ELSE SubstitutionDecrypt(t.encrypted_text, t.source_alphabet, t.target_alphabet)

\* get_info(): the decrypted text it renders, or the IndexError of decrypt()
get_info(t) == Decrypt(t)

-----------------------------------------------------------------------------
\* Python's str.strip / str.split / " ".join / int on character sequences

Quote == "\""
IsSpace(c) == c = " "

RECURSIVE lstrip(_)
lstrip(s) == IF Len(s) > 0 /\ IsSpace(s[1]) THEN lstrip(Tail(s)) ELSE s

RECURSIVE rstrip(_)
rstrip(s) == IF Len(s) > 0 /\ IsSpace(s[Len(s)]) THEN rstrip(SubSeq(s, 1, Len(s) - 1)) ELSE s

strip(s) == rstrip(lstrip(s))

\* length of the leading run of non-whitespace characters
RECURSIVE WordLen(_)
WordLen(s) == IF Len(s) > 0 /\ ~IsSpace(s[1]) THEN 1 + WordLen(Tail(s)) ELSE 0

\* s.split()
RECURSIVE split(_)
split(s) ==
    LET t == lstrip(s)
    IN IF Len(t) = 0 THEN <<>>
       ELSE LET n == WordLen(t)
            IN <<SubSeq(t, 1, n)>> \o split(SubSeq(t, n + 1, Len(t)))

\* s.split(maxsplit=1)
split1(s) ==
    LET t == lstrip(s)
    IN IF Len(t) = 0 THEN <<>>
       ELSE LET n == WordLen(t)
                r == lstrip(SubSeq(t, n + 1, Len(t)))
            IN IF Len(r) = 0 THEN <<SubSeq(t, 1, n)>> ELSE <<SubSeq(t, 1, n), r>>

\* " ".join(parts)
RECURSIVE join(_)
join(parts) ==
    IF Len(parts) = 0 THEN <<>>
    ELSE IF Len(parts) = 1 THEN parts[1]
    ELSE parts[1] \o <<" ">> \o join(Tail(parts))

DigitSeq == <<"0","1","2","3","4","5","6","7","8","9">>

RECURSIVE DigitsValue(_)
DigitsValue(s) ==
    IF Len(s) = 0 THEN 0
    ELSE 10 * DigitsValue(SubSeq(s, 1, Len(s) - 1)) + (Index(s[Len(s)], DigitSeq) - 1)

ValueError == [err |-> TRUE, val |-> 0]

\* int(s) for a token of signs and ASCII digits: the value, or ValueError
int(s) ==
    LET signed == Len(s) > 0 /\ s[1] \in {"+", "-"}
        body == IF signed THEN Tail(s) ELSE s
    IN IF Len(body) > 0 /\ \A i \in 1..Len(body) : In(body[i], DigitSeq)
       THEN Ok(IF signed /\ s[1] = "-" THEN 0 - DigitsValue(body) ELSE DigitsValue(body))
       ELSE ValueError

\* parse_quoted_string: re.match(r'^"([^"]*)"', text.strip()); the remainder is
\* cut from text itself at match.end()
parse_quoted_string(text) ==
    LET t == strip(text)
    IN IF Len(t) >= 2 /\ t[1] = Quote /\ \E j \in 2..Len(t) : t[j] = Quote
       THEN LET end == CHOOSE j \in 2..Len(t) :
                           t[j] = Quote /\ \A k \in 2..(j - 1) : t[k] # Quote
            IN [found |-> TRUE, group |-> SubSeq(t, 2, end - 1),
                rest |-> strip(SubSeq(text, end + 1, Len(text)))]
       ELSE [found |-> FALSE, group |-> <<>>, rest |-> text]

-----------------------------------------------------------------------------
\* The single-record scenario: one record is constructed from arbitrary
\* arguments (ShiftCipher.__init__ / SubstitutionCipher.__init__, each calling
\* encrypt()), then rendered once (get_info(), calling decrypt()).

SeqsUpTo(S, n) == UNION {[1..k -> S] : k \in 0..n}

Letters == Range(LowerSeq) \cup Range(UpperSeq)
ShiftChars == Letters \cup {" ", "1", "!"}
ShiftTexts == {<<c>> : c \in ShiftChars} \cup SeqsUpTo({"a", "Z", " "}, MaxTextLen)
SubstTexts == SeqsUpTo({"a", "b", "A", "1"}, MaxTextLen)
Alphabets == SeqsUpTo({"a", "B", "1"}, MaxAlphaLen)

ShiftArgs == [kind : {"SHIFT"}, text : ShiftTexts, shift_value : (-MaxShift)..MaxShift,
              source_alphabet : {<<>>}, target_alphabet : {<<>>}]
SubstArgs == [kind : {"SUBSTITUTION"}, text : SubstTexts, shift_value : {0},
              source_alphabet : Alphabets, target_alphabet : Alphabets]

AnOwner == <<"a", "l">>
ADate == <<"d", "1">>

FileIdle ==
    /\ pc = "idle" /\ nlines = 0 /\ lineno = 0 /\ line = <<>> /\ texts = <<>>
    /\ out = "" /\ removed = 0 /\ handed = <<>> /\ skipped = <<>>
    /\ added = <<>>

InitCipher ==
    /\ FileIdle
    /\ cpc = "args"
    /\ cargs \in ShiftArgs \cup SubstArgs
    /\ cobj = <<>>
    /\ cdec = <<>>

\* ShiftCipher(text, owner, date, shift)
ShiftInit ==
    /\ cpc = "args"
    /\ cargs.kind = "SHIFT"
    /\ cobj' = <<ShiftCipher(cargs.text, AnOwner, ADate, cargs.shift_value)>>
    /\ cpc' = "built"
    /\ UNCHANGED <<cargs, cdec>>
    /\ UNCHANGED fileVars

\* SubstitutionCipher(text, owner, date, source, target); encrypt() may raise
SubstitutionInit ==
    /\ cpc = "args"
    /\ cargs.kind = "SUBSTITUTION"
    /\ LET r == SubstitutionCipher(cargs.text, AnOwner, ADate,
                                   cargs.source_alphabet, cargs.target_alphabet)
       IN IF r.err
          THEN cpc' = "raised" /\ cobj' = <<>>
          ELSE cpc' = "built" /\ cobj' = <<r.val>>
    /\ UNCHANGED <<cargs, cdec>>
    /\ UNCHANGED fileVars

\* get_info() of the constructed record; decrypt() may raise
GetInfo ==
    /\ cpc = "built"
    /\ LET d == get_info(cobj[1])
       IN IF d.err
          THEN cpc' = "showraised" /\ cdec' = <<>>
          ELSE cpc' = "shown" /\ cdec' = <<d.val>>
    /\ UNCHANGED <<cargs, cobj>>
    /\ UNCHANGED fileVars

NextCipher == ShiftInit \/ SubstitutionInit \/ GetInfo

SpecCipher == InitCipher /\ [][NextCipher]_vars

\* the words the dispatchers compare against
kADD == <<"A","D","D">>
kREM == <<"R","E","M">>
kPRINT == <<"P","R","I","N","T">>
kSHIFT == <<"S","H","I","F","T">>
kSUBSTITUTION == <<"S","U","B","S","T","I","T","U","T","I","O","N">>
kowner == <<"o","w","n","e","r">>
kdate == <<"d","a","t","e">>
klength == <<"l","e","n","g","t","h">>
kEQ == <<"=","=">>
kNE == <<"!","=">>
kGT == <<">">>
kLT == <<"<">>

-----------------------------------------------------------------------------
\* CommandProcessor: the handlers, as functions of the store and the argument
\* string. Each returns the new store, the message printed (its fixed part),
\* the removed_count reported (0 when none is), the record appended (as a
\* sequence of length 0 or 1), and whether an exception left the handler.

Answer(store, msg) ==
    [texts |-> store, out |-> msg, removed |-> 0, new |-> <<>>, raised |-> FALSE]
Raised(store) ==
    [texts |-> store, out |-> "Error reading file", removed |-> 0, new |-> <<>>, raised |-> TRUE]
\* an ADD that puts the new record at the front of the store
PrependedMutant(store, msg, cipher) ==
    [texts |-> <<cipher>> \o store, out |-> msg, removed |-> 0, new |-> <<cipher>>, raised |-> FALSE]
\* self.texts.append(cipher) and the "Added ..." message
Appended(store, msg, cipher) ==
    [texts |-> Append(store, cipher), out |-> msg, removed |-> 0, new |-> <<cipher>>, raised |-> FALSE]

add_substitution_cipher(store, command) ==
    LET q == parse_quoted_string(command)
    IN IF ~q.found THEN Answer(store, "Invalid text format")
       ELSE LET parts == split(q.rest)
            IN IF Len(parts) < 4 THEN Answer(store, "Invalid SUBSTITUTION command format")
               ELSE LET owner == parts[1]
                        date == parts[2]
                        src == parse_quoted_string(join(SubSeq(parts, 3, Len(parts))))
                    IN IF ~src.found THEN Answer(store, "Invalid source alphabet format")
                       ELSE LET tgt == parse_quoted_string(src.rest)
                            IN IF ~tgt.found THEN Answer(store, "Invalid target alphabet format")
                               ELSE LET c == SubstitutionCipher(q.group, owner, date,
                                                                src.group, tgt.group)
                                    IN IF c.err THEN Raised(store)
                                       ELSE Appended(store, "Added SUBSTITUTION cipher", c.val)

\* an ADD SHIFT that appends a record (with shift 0) before it rejects the
\* shift token
add_shift_cipher_AppendsFirstMutant(store, command) ==
    LET q == parse_quoted_string(command)
    IN IF ~q.found THEN Answer(store, "Invalid text format")
       ELSE LET parts == split(q.rest)
            IN IF Len(parts) < 3 THEN Answer(store, "Invalid SHIFT command format")
               ELSE LET shift == int(parts[3])
                    IN IF shift.err
                       THEN Answer(Append(store, ShiftCipher(q.group, parts[1], parts[2], 0)),
                                   "Invalid shift value")
                       ELSE Appended(store, "Added SHIFT cipher",
                                     ShiftCipher(q.group, parts[1], parts[2], shift.val))

add_shift_cipher(store, command) ==
    LET q == parse_quoted_string(command)
    IN IF ~q.found THEN Answer(store, "Invalid text format")
       ELSE LET parts == split(q.rest)
            IN IF Len(parts) < 3 THEN Answer(store, "Invalid SHIFT command format")
               ELSE LET owner == parts[1]
                        date == parts[2]
                        shift == int(parts[3])
                    IN IF shift.err THEN Answer(store, "Invalid shift value")
                       ELSE Appended(store, "Added SHIFT cipher",
                                     ShiftCipher(q.group, owner, date, shift.val))

process_add_command(store, command) ==
    LET parts == split1(command)
    IN IF Len(parts) = 0 THEN Answer(store, "Invalid ADD command")
       ELSE LET cipher_type == parts[1]
                rest == IF Len(parts) > 1 THEN parts[2] ELSE <<>>
            IN IF cipher_type = kSUBSTITUTION
               THEN add_substitution_cipher(store, rest)
               ELSE IF cipher_type = kSHIFT
               THEN add_shift_cipher(store, rest)
               ELSE Answer(store, "Unknown cipher type")

\* the value of a REM command: the tokens after the operator joined by one
\* space, one layer of surrounding quotes removed
RemValue(parts) ==
    LET value_str == join(SubSeq(parts, 3, Len(parts)))
    IN IF Len(value_str) > 0 /\ value_str[1] = Quote /\ value_str[Len(value_str)] = Quote
       THEN SubSeq(value_str, 2, Len(value_str) - 1)
       ELSE value_str

\* the store after filtering, and removed_count = original_count - len(self.texts)
Filtered(store, kept) ==
    [texts |-> kept, out |-> "Removed", removed |-> Len(store) - Len(kept),
     new |-> <<>>, raised |-> FALSE]

\* a REM owner == filter that keeps the records it should remove
KeepOwnerEqualMutant(store, value_str) ==
    SelectSeq(store, LAMBDA t : get_owner(t) = value_str)

\* [t for t in self.texts if t.get_owner() != value_str]
KeepOwnerNotEqual(store, value_str) ==
    SelectSeq(store, LAMBDA t : get_owner(t) # value_str)

\* a REM length > filter that is off by one at the boundary
KeepLengthBelowMutant(store, value) ==
    SelectSeq(store, LAMBDA t : get_text_length(t) < value)

\* [t for t in self.texts if t.get_text_length() <= value]
KeepLengthAtMost(store, value) ==
    SelectSeq(store, LAMBDA t : get_text_length(t) <= value)

process_remove_command(store, command) ==
    LET parts == split(command)
    IN IF Len(parts) < 3 THEN Answer(store, "Invalid REM command format")
       ELSE LET field == parts[1]
                operator == parts[2]
                value_str == RemValue(parts)
            IN IF field = kowner /\ operator = kEQ
               THEN Filtered(store, KeepOwnerNotEqual(store, value_str))
               ELSE IF field = kowner /\ operator = kNE
               THEN Filtered(store, SelectSeq(store, LAMBDA t : get_owner(t) = value_str))
               ELSE IF field = kdate /\ operator = kEQ
               THEN Filtered(store, SelectSeq(store, LAMBDA t : get_date(t) # value_str))
               ELSE IF field = klength /\ operator = kGT
               THEN LET value == int(value_str)
                    IN IF value.err THEN Answer(store, "Invalid length value")
                       ELSE Filtered(store, KeepLengthAtMost(store, value.val))
               ELSE IF field = klength /\ operator = kLT
               THEN LET value == int(value_str)
                    IN IF value.err THEN Answer(store, "Invalid length value")
                       ELSE Filtered(store, SelectSeq(store, LAMBDA t : get_text_length(t) >= value.val))
               ELSE Answer(store, "Unknown REM condition")

\* PRINT renders the records in store order; the first decrypt() that raises
\* leaves the handler
process_print_command(store) ==
    IF Len(store) = 0 THEN Answer(store, "No encrypted texts available")
    ELSE IF \E i \in 1..Len(store) : get_info(store[i]).err THEN Raised(store)
    ELSE Answer(store, "ENCRYPTED TEXTS")

\* process_command: cmd and rest of a line
Cmd(l) == LET parts == split1(strip(l)) IN IF Len(parts) = 0 THEN <<>> ELSE parts[1]
Rest(l) == LET parts == split1(strip(l)) IN IF Len(parts) > 1 THEN parts[2] ELSE <<>>


process_command(store, l) ==
    IF Len(strip(l)) = 0 THEN Answer(store, "")
    ELSE IF Cmd(l) = kADD THEN process_add_command(store, Rest(l))
    ELSE IF Cmd(l) = kREM THEN process_remove_command(store, Rest(l))
    ELSE IF Cmd(l) = kPRINT THEN process_print_command(store)
    ELSE Answer(store, "Unknown command")

-----------------------------------------------------------------------------
\* The input lines of the model: well-formed and malformed commands, a blank
\* line and a comment line.

Q(s) == <<Quote>> \o s \o <<Quote>>
al == <<"a","l">>
bo == <<"b","o">>
d1 == <<"d","1">>
d2 == <<"d","2">>

AddLines == {
    join(<<kADD, kSHIFT, Q(<<"H","i">>), al, d1, <<"3">>>>),
    join(<<kADD, kSHIFT, Q(<<"a","b","c">>), bo, d2, <<"-","1">>>>),
    join(<<kADD, kSUBSTITUTION, Q(<<"A","b">>), al, d2, Q(<<"A","B">>), Q(<<"x","y">>)>>),
    \* target alphabet shorter than the source alphabet
    join(<<kADD, kSUBSTITUTION, Q(<<"b">>), bo, d1, Q(<<"a","b">>), Q(<<"x">>)>>),
    \* source alphabet shorter than the target alphabet
    join(<<kADD, kSUBSTITUTION, Q(<<"b">>), bo, d1, Q(<<"a">>), Q(<<"a","b">>)>>),
    \* a source alphabet with a run of two spaces
    join(<<kADD, kSUBSTITUTION, Q(<<"a"," ","b">>), al, d1,
           Q(<<"a"," "," ","b">>), Q(<<"w","x","y","z">>)>>) }

BadAddLines == {
    join(<<kADD, kSHIFT, Q(<<"H","i">>), al, d1, <<"x">>>>),
    join(<<kADD, kSHIFT, Q(<<"H","i">>), al>>),
    join(<<kADD, kSHIFT, <<"H","i">>, al, d1, <<"3">>>>),
    join(<<kADD, kSUBSTITUTION, <<"a","b">>, al, d2, Q(<<"a","b">>), Q(<<"x","y">>)>>),
    join(<<kADD, kSUBSTITUTION, Q(<<"a","b">>), al, d2, Q(<<"a","b">>)>>),
    join(<<kADD, kSUBSTITUTION, Q(<<"a","b">>), al, d2, <<"a","b">>, Q(<<"x","y">>)>>),
    join(<<kADD, kSUBSTITUTION, Q(<<"a","b">>), al, d2, Q(<<"a","b">>), <<"x","y">>>>),
    join(<<kADD, <<"R","O","T">>, Q(<<"H","i">>), al, d1>>),
    kADD }

RemLines == {
    join(<<kREM, kowner, kEQ, Q(al)>>),
    join(<<kREM, kowner, kEQ, bo>>),
    join(<<kREM, kowner, kNE, al>>),
    join(<<kREM, kdate, kEQ, d1>>),
    join(<<kREM, klength, kGT, <<"2">>>>),
    join(<<kREM, klength, kLT, Q(<<"3">>)>>) }

BadRemLines == {
    join(<<kREM, kowner, kEQ>>),
    join(<<kREM, kdate, kNE, d1>>),
    join(<<kREM, klength, kGT, <<"x">>>>) }

OtherLines == {
    kPRINT,
    join(<<<<"F","O","O">>, <<"b","a","r">>>>),
    <<" ">>,
    <<"#", " ", "c">> }

Lines == AddLines \cup BadAddLines \cup RemLines \cup BadRemLines \cup OtherLines

-----------------------------------------------------------------------------
\* process_file

Init ==
    /\ pc = "start"
    /\ nlines = 0
    /\ lineno = 0
    /\ line = <<>>
    /\ texts = <<>>
    /\ out = ""
    /\ removed = 0
    /\ handed = <<>>
    /\ skipped = <<>>
    /\ added = <<>>
    /\ cpc = "idle"
    /\ cargs = <<>>
    /\ cobj = <<>>
    /\ cdec = <<>>

\* open(filename) succeeds on a file of nlines lines
OpenFile ==
    /\ pc = "start"
    /\ \E n \in 0..MaxLines : nlines' = n
    /\ pc' = "reading"
    /\ UNCHANGED <<lineno, line, texts, out, removed, handed, skipped, added>>
    /\ UNCHANGED cipherVars

\* open(filename) raises: FileNotFoundError or another exception
OpenFail ==
    /\ pc = "start"
    /\ \E how \in {"notfound", "openerror"} :
          /\ pc' = how
          /\ out' = IF how = "notfound" THEN "File not found" ELSE "Error reading file"
    /\ UNCHANGED <<nlines, lineno, line, texts, removed, handed, skipped, added>>
    /\ UNCHANGED cipherVars

\* the loop's test: the stripped line is empty or starts with "#"
IsSkipped(l) == IF Len(strip(l)) = 0 THEN TRUE ELSE strip(l)[1] = "#"

\* one iteration of the loop on a blank or comment line
SkipLine ==
    /\ pc = "reading"
    /\ lineno < nlines
    /\ \E l \in Lines :
          /\ IsSkipped(l)
          /\ line' = l
    /\ lineno' = lineno + 1
    /\ skipped' = Append(skipped, lineno + 1)
    /\ out' = ""
    /\ removed' = 0
    /\ UNCHANGED <<pc, nlines, texts, handed, added>>
    /\ UNCHANGED cipherVars

\* one iteration of the loop on line l, answered by the handler with res; an
\* exception leaving process_command is caught by process_file's
\* "except Exception", which ends the loop
Handle(l, res) ==
    /\ line' = l
    /\ lineno' = lineno + 1
    /\ handed' = Append(handed, lineno + 1)
    /\ texts' = res.texts
    /\ out' = res.out
    /\ removed' = res.removed
    /\ added' = added \o res.new
    /\ pc' = IF res.raised THEN "aborted" ELSE "reading"
    /\ UNCHANGED <<nlines, skipped>>
    /\ UNCHANGED cipherVars

Reading(l) == pc = "reading" /\ lineno < nlines /\ ~IsSkipped(l)

CipherType(l) == LET parts == split1(Rest(l)) IN IF Len(parts) = 0 THEN <<>> ELSE parts[1]

AddSubstitution ==
    \E l \in Lines :
        /\ Reading(l)
        /\ Cmd(l) = kADD /\ CipherType(l) = kSUBSTITUTION
        /\ Handle(l, process_command(texts, l))

AddShift ==
    \E l \in Lines :
        /\ Reading(l)
        /\ Cmd(l) = kADD /\ CipherType(l) = kSHIFT
        /\ Handle(l, process_command(texts, l))

\* ADD with no cipher type or an unknown one
AddOther ==
    \E l \in Lines :
        /\ Reading(l)
        /\ Cmd(l) = kADD /\ CipherType(l) \notin {kSUBSTITUTION, kSHIFT}
        /\ Handle(l, process_command(texts, l))

Remove ==
    \E l \in Lines :
        /\ Reading(l)
        /\ Cmd(l) = kREM
        /\ Handle(l, process_command(texts, l))

PrintTexts ==
    \E l \in Lines :
        /\ Reading(l)
        /\ Cmd(l) = kPRINT
        /\ Handle(l, process_command(texts, l))

UnknownCommand ==
    \E l \in Lines :
        /\ Reading(l)
        /\ Cmd(l) \notin {kADD, kREM, kPRINT}
        /\ Handle(l, process_command(texts, l))

\* the file iterator is exhausted
Eof ==
    /\ pc = "reading"
    /\ lineno = nlines
    /\ pc' = "eof"
    /\ UNCHANGED <<nlines, lineno, line, texts, out, removed, handed, skipped, added>>
    /\ UNCHANGED cipherVars

Next ==
    \/ OpenFile \/ OpenFail
    \/ SkipLine
    \/ AddSubstitution \/ AddShift \/ AddOther
    \/ Remove \/ PrintTexts \/ UnknownCommand
    \/ Eof

Spec == Init /\ [][Next]_vars

-----------------------------------------------------------------------------
\* Claims about the ciphers (checked under SpecCipher).

NoRepeats(s) == \A i, j \in 1..Len(s) : s[i] = s[j] => i = j

\* C5: Shift round trip. For every ASCII letter, of either case, and every
\* shift in -MaxShift..MaxShift (negative and beyond 26 included), decrypting
\* the encrypted text gives the original text back, case included; for every
\* text, the decrypted text a rendered Shift record shows is its original text.
C5_ShiftRoundTrip ==
    (cpc = "shown" /\ cargs.kind = "SHIFT") =>
        /\ cdec[1] = cargs.text
        /\ cobj[1].text = cargs.text
        /\ \A i \in 1..Len(cargs.text) :
              isupper(cdec[1][i]) = isupper(cargs.text[i])

C5_Witness ==
    /\ cpc = "shown" /\ cargs.kind = "SHIFT"
    /\ cargs.shift_value < -26
    /\ cargs.text = <<"Z">>
    /\ cobj[1].encrypted_text # cargs.text
    /\ cdec[1] = <<"Z">>

\* C6: Substitution round trip. Whenever the target alphabet has no repeated
\* character and is as long as the source alphabet, the decrypted text of a
\* rendered Substitution record is its original text.
C6_SubstRoundTrip ==
    (/\ cpc \in {"shown", "showraised"}
     /\ cargs.kind = "SUBSTITUTION"
     /\ NoRepeats(cargs.target_alphabet)
     /\ Len(cargs.target_alphabet) = Len(cargs.source_alphabet)) =>
        (cpc = "shown" /\ cdec[1] = cargs.text)

\* C7: Pass-through. A non-alphabetic character of a Shift record's text, and
\* a character of a Substitution record's text whose lower-cased form is not in
\* the source alphabet, stands unchanged at its position in the encrypted text
\* and in the decrypted text.
PassesThrough(t, i) ==
    IF t.kind = "SHIFT" THEN ~isalpha(t.text[i])
    ELSE ~In(lower(t.text[i]), t.source_alphabet)

C7_PassThrough ==
    /\ cpc \in {"built", "shown", "showraised"} =>
          \A i \in 1..Len(cobj[1].text) :
              PassesThrough(cobj[1], i) =>
                  (Len(cobj[1].encrypted_text) >= i /\ cobj[1].encrypted_text[i] = cobj[1].text[i])
    /\ cpc = "shown" =>
          \A i \in 1..Len(cobj[1].text) :
              PassesThrough(cobj[1], i) =>
                  (Len(cdec[1]) >= i /\ cdec[1][i] = cobj[1].text[i])

\* C8: The cipher operations raise no error. For every text and every
\* parameter value, encrypt() at construction and decrypt() at display complete
\* and return a string as long as their input.
C8_NoCipherError ==
    /\ cpc \notin {"raised", "showraised"}
    /\ cpc \in {"built", "shown"} => Len(cobj[1].encrypted_text) = Len(cobj[1].text)
    /\ cpc = "shown" => Len(cdec[1]) = Len(cobj[1].encrypted_text)

-----------------------------------------------------------------------------
\* Claims about the command processor and the file driver (checked under Spec).

\* the step handed a line to process_command
Handled == lineno' = lineno + 1 /\ Len(handed') = Len(handed) + 1

\* the tokens of a REM line after the command word
RemParts(l) == split(Rest(l))
RemField(l) == RemParts(l)[1]
RemOperator(l) == RemParts(l)[2]
IsRem(l) == Cmd(l) = kREM /\ Len(RemParts(l)) >= 3

\* the table of REM conditions: the records a condition removes
TableConditions == {<<kowner, kEQ>>, <<kowner, kNE>>, <<kdate, kEQ>>, <<klength, kGT>>, <<klength, kLT>>}
TableRemoves(t, field, operator, value_str) ==
    IF field = kowner /\ operator = kEQ THEN t.owner_name = value_str
    ELSE IF field = kowner /\ operator = kNE THEN t.owner_name # value_str
    ELSE IF field = kdate /\ operator = kEQ THEN t.date = value_str
    ELSE IF field = klength /\ operator = kGT THEN Len(t.text) > int(value_str).val
    ELSE IF field = klength /\ operator = kLT THEN Len(t.text) < int(value_str).val
    ELSE FALSE

\* C1: REM owner == v removes exactly the records whose owner equals v, every
\* other record stays, the reported count is the number of records whose owner
\* equalled v before the command, and the same REM issued on the resulting
\* store reports 0 removed and leaves that store unchanged.
C1_RemOwnerEq ==
    [][(/\ Handled
        /\ IsRem(line')
        /\ RemField(line') = kowner
        /\ RemOperator(line') = kEQ) =>
           LET v == RemValue(RemParts(line'))
               again == process_command(texts', line')
           IN /\ out' = "Removed"
              /\ texts' = SelectSeq(texts, LAMBDA t : t.owner_name # v)
              /\ removed' = Cardinality({i \in 1..Len(texts) : texts[i].owner_name = v})
              /\ again.out = "Removed"
              /\ again.removed = 0
              /\ again.texts = texts']_vars

C1_Witness ==
    /\ pc = "reading"
    /\ IsRem(line) /\ RemField(line) = kowner /\ RemOperator(line) = kEQ
    /\ out = "Removed"
    /\ removed >= 1
    /\ Len(texts) >= 1
    /\ Len(added) = Len(texts) + removed

\* C2: for each of the five conditions of the table (with an integer value
\* for length), the store after REM is the sequence of the records the
\* condition does not remove, in their original order.
C2_RemTable ==
    [][(/\ Handled
        /\ IsRem(line')
        /\ <<RemField(line'), RemOperator(line')>> \in TableConditions
        /\ (RemField(line') = klength => ~int(RemValue(RemParts(line'))).err)) =>
           LET f == RemField(line')
               o == RemOperator(line')
               v == RemValue(RemParts(line'))
           IN /\ out' = "Removed"
              /\ texts' = SelectSeq(texts, LAMBDA t : ~TableRemoves(t, f, o, v))
              /\ removed' = Len(texts) - Len(texts')]_vars

C2_Witness ==
    /\ IsRem(line) /\ RemField(line) = klength /\ RemOperator(line) = kGT
    /\ out = "Removed"
    /\ removed >= 1
    /\ Len(texts) >= 1
    /\ \A i \in 1..Len(texts) : Len(texts[i].text) <= 2

\* the messages that report an error
ErrorMessages == {
    "Unknown command", "Unknown cipher type", "Invalid ADD command",
    "Invalid text format", "Invalid SUBSTITUTION command format",
    "Invalid source alphabet format", "Invalid target alphabet format",
    "Invalid SHIFT command format", "Invalid shift value",
    "Invalid REM command format", "Unknown REM condition", "Invalid length value",
    "Error reading file", "File not found" }

\* C3: a line answered with an error message leaves the store as it was.
C3_ErrorKeepsStore ==
    [][(out' \in ErrorMessages /\ (Handled \/ pc = "start")) => texts' = texts]_vars

C3_Witness ==
    /\ out = "Unknown REM condition"
    /\ Len(texts) >= 2
    /\ pc = "reading"

\* C4: once the file is open the driver runs to its end: when the driver has
\* stopped, every line of the file has been read, and the lines handed to the
\* command parser are, in file order, exactly those that were not skipped as
\* blank or comment.
Increasing(s) == \A i, j \in 1..Len(s) : i < j => s[i] < s[j]
C4_RunsToEndOfFile ==
    pc \in {"eof", "aborted"} =>
        /\ lineno = nlines
        /\ Increasing(handed)
        /\ Range(handed) \cup Range(skipped) = 1..nlines

RECURSIVE IsSubseq(_, _)
IsSubseq(s, t) ==
    IF Len(s) = 0 THEN TRUE
    ELSE IF Len(t) = 0 THEN FALSE
    ELSE IF Head(s) = Head(t) THEN IsSubseq(Tail(s), Tail(t))
    ELSE IsSubseq(s, Tail(t))

AddedMessages == {"Added SHIFT cipher", "Added SUBSTITUTION cipher"}

\* C9: the store is empty at start; a successful ADD appends one record at the
\* end and leaves the earlier records in place; a REM never lengthens or
\* reorders the store; PRINT leaves it unchanged; and the store is always a
\* subsequence, in insertion order, of the records added so far.
C9_StoreLifecycle ==
    /\ texts = <<>>
    /\ [][/\ (Handled /\ out' \in AddedMessages) =>
                /\ Len(texts') = Len(texts) + 1
                /\ SubSeq(texts', 1, Len(texts)) = texts
                /\ Len(added') = Len(added) + 1
                /\ texts'[Len(texts')] = added'[Len(added')]
          /\ (Handled /\ Cmd(line') = kREM) =>
                /\ Len(texts') <= Len(texts)
                /\ IsSubseq(texts', texts)
          /\ (Handled /\ Cmd(line') = kPRINT) => texts' = texts
          /\ IsSubseq(texts', added')]_vars

C9_Witness ==
    /\ Len(added) = 2
    /\ Len(texts) = 1
    /\ texts[1] = added[2]
    /\ added[1] # added[2]
    /\ Cmd(line) = kREM

\* the contents of the successive double-quoted segments written on a line
RECURSIVE QuotedSegments(_)
QuotedSegments(l) ==
    IF \E i \in 1..Len(l) : l[i] = Quote /\ \E j \in (i + 1)..Len(l) : l[j] = Quote
    THEN LET i == CHOOSE a \in 1..Len(l) : l[a] = Quote /\ \A k \in 1..(a - 1) : l[k] # Quote
             j == CHOOSE b \in (i + 1)..Len(l) : l[b] = Quote /\ \A k \in (i + 1)..(b - 1) : l[k] # Quote
         IN <<SubSeq(l, i + 1, j - 1)>> \o QuotedSegments(SubSeq(l, j + 1, Len(l)))
    ELSE <<>>

\* C10: every stored record carries the text and cipher parameters written on
\* the ADD line that created it (the alphabets lower-cased), its cached
\* encrypted_text is the variant's encode of that text under those parameters,
\* and no later line changes a stored record.
C10_RecordAsGiven ==
    [][/\ (Handled /\ out' = "Added SUBSTITUTION cipher") =>
             LET r == texts'[Len(texts')]
                 w == QuotedSegments(line')
             IN /\ r.text = w[1]
                /\ r.source_alphabet = LowerStr(w[2])
                /\ r.target_alphabet = LowerStr(w[3])
                /\ r.encrypted_text = SubstitutionEncrypt(w[1], LowerStr(w[2]), LowerStr(w[3])).val
       /\ (Handled /\ out' = "Added SHIFT cipher") =>
             LET r == texts'[Len(texts')]
                 w == QuotedSegments(line')
             IN /\ r.text = w[1]
                /\ Ok(r.shift_value) = int(split(line')[Len(split(line'))])
                /\ r.encrypted_text = ShiftEncrypt(w[1], r.shift_value)
       /\ IsSubseq(texts', texts \o SubSeq(added', Len(added) + 1, Len(added')))]_vars

====
